---- MODULE Spec2Model ----
(***************************************************************************)
(* Model of hummingbird/operator_converters/_tree_commons.py: the depth    *)
(* analysis, the strategy selector, and the tree-traversal and GEMM        *)
(* parameter builders.                                                     *)
(*                                                                         *)
(* Python lists and numpy arrays are sequences; the node with id k sits at *)
(* position k + 1.  Child ids are the integers of the source, -1 included. *)
(* Leaf values are vectors of exact rationals <<numerator, denominator>>   *)
(* (float rounding is not modelled); <<0, 0>> is the result of 0 / 0.      *)
(***************************************************************************)
EXTENDS Integers, Sequences, FiniteSets, TLC

VARIABLES params, raw, trav, gemm, depth_call, ens, sel

vars == <<params, raw, trav, gemm, depth_call, ens, sel>>

-----------------------------------------------------------------------------
(* Bounds of the model. *)

\* Internal nodes of a tree handed to the builders (2 splits: up to 5 nodes).
MaxSplits == 2
\* Internal nodes of a tree handed to the depth analysis (3 splits: 7 nodes).
MaxDepthSplits == 3
\* Nodes of a tree that may break the binary-or-leaf rule (one-sided nodes).
MaxOneSidedNodes == 5
\* Trees in an ensemble.
MaxTrees == 3
\* Largest max_depth handed to the strategy selector directly.
MaxDepthArg == 12

\* Feature columns of the input (n_features is their number).
FeatureIds == {0, 1}
n_features == Cardinality(FeatureIds)
\* Values an input feature takes.
XVals == {0, 1, 2}
\* What the producer of the raw arrays leaves in a leaf's feature slot.
LeafFeatureVals == {0 - 2, 0 - 1}
\* Shapes of the leaf values: one number, class counts, class probabilities.
ValueProfiles == {"scalar", "counts", "proba"}

-----------------------------------------------------------------------------
(* Sequences and rationals. *)

At(s, i) == s[i + 1]

Range(s) == {s[k] : k \in 1..Len(s)}

MaxOf(a, b) == IF a >= b THEN a ELSE b

MinOf(a, b) == IF a <= b THEN a ELSE b

MinSet(S) == CHOOSE m \in S : \A o \in S : m <= o

\* The greatest common divisor of two naturals, b > 0.
GCD(a, b) ==
  CHOOSE d \in 1..b : /\ a % d = 0 /\ b % d = 0
                      /\ \A e \in (d + 1)..b : a % e # 0 \/ b % e # 0

NaN == <<0, 0>>

\* A float is kept as an exact fraction in lowest terms; NaN is 0/0.
Frac(n, d) == IF d = 0 THEN NaN ELSE <<n \div GCD(n, d), d \div GCD(n, d)>>

\* Each operand is bound to its value once, then combined.
FAdd(a, b) ==
  CHOOSE s \in { IF x[2] = 0 \/ y[2] = 0 THEN NaN
                 ELSE Frac(x[1] * y[2] + y[1] * x[2], x[2] * y[2]) : x \in {a}, y \in {b} } : TRUE

FDiv(a, b) ==
  CHOOSE q \in { IF x[2] = 0 \/ y[2] = 0 \/ y[1] = 0 THEN NaN
                 ELSE Frac(x[1] * y[2], x[2] * y[1]) : x \in {a}, y \in {b} } : TRUE

RECURSIVE FSum(_, _)
FSum(v, k) == IF k = 0 THEN <<0, 1>> ELSE FAdd(FSum(v, k - 1), v[k])

-----------------------------------------------------------------------------
(* The trees the model feeds to the code. *)

Shape(l, r) == [lefts |-> l, rights |-> r]

\* Every tree on the id set S whose nodes have two children or none and whose
\* parents have smaller ids than their children; the root is the least id.
RECURSIVE TreesOn(_)
TreesOn(S) ==
  LET root == MinSet(S)
      rest == S \ {root}
  IN  IF rest = {}
      THEN {[l |-> (root :> (0 - 1)), r |-> (root :> (0 - 1))]}
      ELSE UNION {
           UNION {
             UNION {
               { [l |-> (root :> MinSet(A)) @@ a.l @@ b.l,
                  r |-> (root :> MinSet(rest \ A)) @@ a.r @@ b.r],
                 [l |-> (root :> MinSet(rest \ A)) @@ a.l @@ b.l,
                  r |-> (root :> MinSet(A)) @@ a.r @@ b.r] }
               : b \in TreesOn(rest \ A) }
             : a \in TreesOn(A) }
           : A \in {X \in SUBSET rest :
                      /\ MinSet(rest) \in X
                      /\ X # rest
                      /\ Cardinality(X) % 2 = 1} }

BinaryShapes(n) ==
  { Shape([k \in 1..n |-> t.l[k - 1]], [k \in 1..n |-> t.r[k - 1]])
    : t \in TreesOn(0..(n - 1)) }

\* Every tree of n nodes with parents before children, one-sided nodes allowed.
RECURSIVE AllShapes(_)
AllShapes(n) ==
  IF n = 1
  THEN {Shape(<<0 - 1>>, <<0 - 1>>)}
  ELSE UNION {
         { Shape(Append([t.lefts EXCEPT ![p] = n - 1], 0 - 1), Append(t.rights, 0 - 1))
           : p \in {q \in 1..(n - 1) : t.lefts[q] = 0 - 1} }
         \cup
         { Shape(Append(t.lefts, 0 - 1), Append([t.rights EXCEPT ![p] = n - 1], 0 - 1))
           : p \in {q \in 1..(n - 1) : t.rights[q] = 0 - 1} }
         : t \in AllShapes(n - 1) }

IsLeafAt(l, r, k) == l[k] = 0 - 1 /\ r[k] = 0 - 1

\* The binary-or-leaf rule of the data model, with the root at id 0 and parents
\* stored before their children.
WellFormed(l, r) ==
  /\ Len(l) = Len(r)
  /\ Len(l) >= 1
  /\ \A k \in 1..Len(l) :
        \/ IsLeafAt(l, r, k)
        \/ /\ l[k] \in k..(Len(l) - 1)
           /\ r[k] \in k..(Len(l) - 1)
           /\ l[k] # r[k]
  /\ \A c \in 1..(Len(l) - 1) :
        Cardinality({k \in 1..Len(l) : l[k] = c}) + Cardinality({k \in 1..Len(l) : r[k] = c}) = 1

BuilderShapes == UNION {BinaryShapes(2 * k + 1) : k \in 0..MaxSplits}

DepthShapes ==
  UNION {BinaryShapes(2 * k + 1) : k \in 0..MaxDepthSplits}
  \cup UNION {AllShapes(n) : n \in 1..MaxOneSidedNodes}

Internals(sh) == {k \in 1..Len(sh.lefts) : sh.lefts[k] # 0 - 1}

\* Split features rotate through the feature columns from a chosen start; every
\* leaf slot holds the same filler.
FeatureArrays(sh) ==
  { [k \in 1..Len(sh.lefts) |->
       IF k \in Internals(sh) THEN (k - 1 + shift) % n_features ELSE lf]
    : shift \in FeatureIds, lf \in LeafFeatureVals }

ThresholdArray(n) == [k \in 1..n |-> (k - 1) % 2]

ValueArray(profile, n) ==
  [k \in 1..n |->
     CASE profile = "scalar" -> << <<k, 1>> >>
       [] profile = "counts" -> << <<k, 1>>, <<1, 1>> >>
       [] OTHER -> IF k % 2 = 1 THEN << <<1, 1>>, <<0, 1>> >>
                                ELSE << <<0, 1>>, <<1, 1>> >>]

\* TreeParameters: one tree's raw attribute arrays.
TreeParameters(l, r, f, t, v) ==
  [lefts |-> l, rights |-> r, features |-> f, thresholds |-> t, values |-> v]

BuilderTrees ==
  UNION {
    { TreeParameters(sh.lefts, sh.rights, f, ThresholdArray(Len(sh.lefts)),
                     ValueArray(vp, Len(sh.lefts)))
      : f \in FeatureArrays(sh), vp \in ValueProfiles }
    : sh \in BuilderShapes }

-----------------------------------------------------------------------------
(* Strategy selector. *)

\* extra_config: whether it has the key "tree_implementation", and its value.
ExtraConfig(has, name) == [has_key |-> has, name |-> name]

ExtraConfigs ==
  {ExtraConfig(FALSE, "")}
  \cup {ExtraConfig(TRUE, nm) : nm \in {"gemm", "tree_trav", "perf_tree_trav", "bogus"}}

\* max_depth: None, or a number.
DepthArg(given, val) == [given |-> given, val |-> val]

\* What a call gives back: the value it returns, or the exception it raises.
Returned(v) == [status |-> "returned", val |-> v, err |-> ""]

Raised(e) == [status |-> "raised", val |-> 0, err |-> e]

\* The selector raising instead of returning a strategy name.
NoStrategy(e) == [status |-> "raised", val |-> "", err |-> e]

low == 3

high == 10

get_tree_implementation_strict(extra_config, max_depth, lo, hi) ==
  IF ~extra_config.has_key
  THEN IF max_depth.given /\ max_depth.val < lo THEN Returned("gemm")
       ELSE IF max_depth.given /\ max_depth.val < hi THEN Returned("tree_trav")
       ELSE Returned("perf_tree_trav")
  ELSE IF extra_config.name \in {"gemm", "tree_trav", "perf_tree_trav"}
       THEN Returned(extra_config.name)
       ELSE NoStrategy("ValueError")

get_tree_implementation_by_config_or_depth(extra_config, max_depth, lo, hi) ==
  IF ~extra_config.has_key
  THEN IF max_depth.given /\ max_depth.val <= lo THEN Returned("gemm")
       ELSE IF max_depth.given /\ max_depth.val <= hi THEN Returned("tree_trav")
       ELSE Returned("perf_tree_trav")
  ELSE IF extra_config.name = "gemm" THEN Returned("gemm")
       ELSE IF extra_config.name = "tree_trav" THEN Returned("tree_trav")
       ELSE IF extra_config.name = "perf_tree_trav" THEN Returned("perf_tree_trav")
       ELSE NoStrategy("ValueError")

-----------------------------------------------------------------------------
(* Depth analysis. *)

\* A Node object on the heap; a child field holds None (as constructed), the
\* integer -1, or a reference to another Node (its position on the heap).
Node(id) == [id |-> id, lkind |-> "None", left |-> 0, rkind |-> "None", right |-> 0]

\* One pass of the loop of _find_max_depth over nodes = zip(ids, lefts, rights),
\* for the node at position k: st holds the heap, nodes_map (id -> heap
\* position, 0 when the id has no entry), the tree's own copies of lefts and
\* rights, and the exception raised so far ("" when none).
DepthNodeStep(st, k, left, right) ==
  LET id == k - 1
      h1 == IF left # 0 - 1 THEN Append(st.heap, Node(left)) ELSE st.heap
      m1 == IF left # 0 - 1 THEN [st.nodes_map EXCEPT ![left] = Len(h1)] ELSE st.nodes_map
      h2 == IF right # 0 - 1 THEN Append(h1, Node(right)) ELSE h1
      m2 == IF right # 0 - 1 THEN [m1 EXCEPT ![right] = Len(h2)] ELSE m1
      cur == m2[id]
  IN  IF st.err # "" THEN st
      ELSE IF cur = 0 THEN [st EXCEPT !.err = "KeyError"]
      ELSE [heap |-> [h2 EXCEPT ![cur].lkind = IF left # 0 - 1 THEN "node" ELSE "minus1",
                                ![cur].left = IF left # 0 - 1 THEN Len(h1) ELSE 0,
                                ![cur].rkind = IF right # 0 - 1 THEN "node" ELSE "minus1",
                                ![cur].right = IF right # 0 - 1 THEN Len(h2) ELSE 0],
            nodes_map |-> m2,
            lefts |-> IF left # 0 - 1 THEN st.lefts ELSE [st.lefts EXCEPT ![k] = id],
            rights |-> IF right # 0 - 1 THEN st.rights ELSE [st.rights EXCEPT ![k] = id],
            err |-> ""]

RECURSIVE DepthNodes(_, _, _, _)
DepthNodes(st, k, lefts, rights) ==
  IF k > MinOf(Len(lefts), Len(rights)) THEN st
  ELSE DepthNodes(DepthNodeStep(st, k, lefts[k], rights[k]), k + 1, lefts, rights)

\* The value of _find_depth at a node with no real child.
LeafDepthSame(current_depth) == current_depth

LeafDepth(current_depth) == current_depth + 1

RECURSIVE _find_depth(_, _, _)
_find_depth(heap, ref, current_depth) ==
  LET node == heap[ref] IN
  IF node.lkind = "None" \/ node.rkind = "None"
  THEN \* both fields differ from -1, so the last branch recurses into None
       Raised("AttributeError")
  ELSE IF node.lkind = "minus1" /\ node.rkind = "minus1"
  THEN Returned(LeafDepth(current_depth))
  ELSE IF node.lkind # "minus1" /\ node.rkind = "minus1"
  THEN Raised("AttributeError")   \* node.l
  ELSE IF node.rkind # "minus1" /\ node.lkind = "minus1"
  THEN Raised("AttributeError")   \* node.r
  ELSE LET dl == _find_depth(heap, node.left, current_depth + 1)
           dr == _find_depth(heap, node.right, current_depth + 1)
       IN  IF dl.status = "raised" THEN dl
           ELSE IF dr.status = "raised" THEN dr
           ELSE Returned(MaxOf(dl.val, dr.val))

\* The body of the loop of _find_max_depth for one tree: the depth of the tree
\* whose arrays are lefts and rights (deep copies of the caller's).
TreeDepth(lefts, rights) ==
  LET n  == Len(lefts)
      st == DepthNodes([heap |-> <<Node(0)>>,
                        nodes_map |-> [i \in 0..MaxOf(n - 1, 0) |-> IF i = 0 THEN 1 ELSE 0],
                        lefts |-> lefts, rights |-> rights, err |-> ""],
                       1, lefts, rights)
  IN  IF st.err # "" THEN Raised(st.err)
      ELSE _find_depth(st.heap, st.nodes_map[0], 0 - 1)

-----------------------------------------------------------------------------
(* The strategy selector called on its own. *)

Idle == [pc |-> "idle"]

SelectInit ==
  /\ sel \in { [pc |-> "call", extra_config |-> c, max_depth |-> d, out |-> Returned("")]
               : c \in ExtraConfigs,
                 d \in {DepthArg(FALSE, 0)} \cup {DepthArg(TRUE, v) : v \in 0..MaxDepthArg} }
  /\ params = Idle /\ raw = Idle /\ trav = Idle /\ gemm = Idle
  /\ depth_call = Idle /\ ens = Idle

SelectCall ==
  /\ sel.pc = "call"
  /\ sel' = [sel EXCEPT !.pc = "done",
                        !.out = get_tree_implementation_by_config_or_depth(
                                  sel.extra_config, sel.max_depth, low, high)]
  /\ UNCHANGED <<params, raw, trav, gemm, depth_call, ens>>

SelectNext == SelectCall

SelectSpec == SelectInit /\ [][SelectNext]_vars

-----------------------------------------------------------------------------
(* get_tree_params_and_type over an ensemble, one tree per loop pass. *)

\* Longest root-to-leaf path below node i, in edges, following real children.
RECURSIVE RefHeight(_, _, _)
RefHeight(l, r, i) ==
  LET hl == IF At(l, i) = 0 - 1 THEN 0 ELSE 1 + RefHeight(l, r, At(l, i))
      hr == IF At(r, i) = 0 - 1 THEN 0 ELSE 1 + RefHeight(l, r, At(r, i))
  IN  MaxOf(hl, hr)

\* Shortest root-to-leaf path below node i, in edges.
RECURSIVE RefMinHeight(_, _, _)
RefMinHeight(l, r, i) ==
  IF At(l, i) = 0 - 1 /\ At(r, i) = 0 - 1 THEN 0
  ELSE IF At(l, i) = 0 - 1 THEN 1 + RefMinHeight(l, r, At(r, i))
  ELSE IF At(r, i) = 0 - 1 THEN 1 + RefMinHeight(l, r, At(l, i))
  ELSE 1 + MinOf(RefMinHeight(l, r, At(l, i)), RefMinHeight(l, r, At(r, i)))

\* What the model remembers of the tree the loop just analysed.
TreeSummary(t) ==
  [nodes |-> Len(t.lefts),
   height |-> RefHeight(t.lefts, t.rights, 0),
   balanced |-> /\ WellFormed(t.lefts, t.rights)
                /\ RefMinHeight(t.lefts, t.rights, 0) = RefHeight(t.lefts, t.rights, 0),
   wf |-> WellFormed(t.lefts, t.rights)]

DepthInit ==
  /\ ens = [pc |-> "loop", count |-> 0, depth |-> 0,
            tree |-> TreeSummary(Shape(<<0 - 1>>, <<0 - 1>>)), tree_depth |-> Returned(0),
            expected |-> 0, wf |-> TRUE,
            max_depth |-> 0, tree_type |-> Returned("")]
  /\ params = Idle /\ raw = Idle /\ trav = Idle /\ gemm = Idle
  /\ depth_call = Idle /\ sel = Idle

\* Lines 77-99 on each tree the ensemble may hold: the depth _find_depth
\* gives for it (or the error it raises), next to the summary of the tree.
AnalysedTrees ==
  { [tree |-> TreeSummary(t), tree_depth |-> TreeDepth(t.lefts, t.rights)] : t \in DepthShapes }

\* Lines 66-99: one pass of the loop of _find_max_depth, on the next tree.
FindMaxDepthTree ==
  /\ ens.pc = "loop"
  /\ ens.count < MaxTrees
  /\ \E a \in AnalysedTrees :
       LET d == a.tree_depth IN
       ens' = [ens EXCEPT
                 !.pc = IF d.status = "raised" THEN "raised" ELSE "loop",
                 !.count = ens.count + 1,
                 !.depth = IF d.status = "raised" THEN ens.depth ELSE MaxOf(ens.depth, d.val),
                 !.tree = a.tree,
                 !.tree_depth = d,
                 !.expected = MaxOf(ens.expected, a.tree.height),
                 !.wf = ens.wf /\ a.tree.wf]
  /\ UNCHANGED <<params, raw, trav, gemm, depth_call, sel>>

\* Lines 149-152: the floor at 1, the strategy, the return.
GetTreeParamsReturn ==
  /\ ens.pc = "loop"
  /\ ens.count >= 1
  /\ \E c \in ExtraConfigs :
       LET md == MaxOf(1, ens.depth)
           tt == get_tree_implementation_by_config_or_depth(c, DepthArg(TRUE, md), low, high)
       IN  ens' = [ens EXCEPT
                     !.pc = IF tt.status = "raised" THEN "raised" ELSE "returned",
                     !.max_depth = md,
                     !.tree_type = tt]
  /\ UNCHANGED <<params, raw, trav, gemm, depth_call, sel>>

DepthNext == FindMaxDepthTree \/ GetTreeParamsReturn

DepthSpec == DepthInit /\ [][DepthNext]_vars

-----------------------------------------------------------------------------
(* Python indexing and numpy shapes. *)

\* The position of index i in a list of n elements (negative indices count
\* from the end); 0 when Python raises IndexError.
PyPos(i, n) ==
  IF 0 <= i /\ i < n THEN i + 1
  ELSE IF 0 - n <= i /\ i < 0 THEN n + i + 1
  ELSE 0

\* values.shape[-1] of np.array(values): the row width of a rectangular
\* array, the number of rows of a ragged one (a 1-D array of objects).
LastDim(values) ==
  IF \A k \in 1..Len(values) : Len(values[k]) = Len(values[1])
  THEN Len(values[1])
  ELSE Len(values)

\* v / np.sum(v)
Normalized(v) == [k \in 1..Len(v) |-> FDiv(v[k], FSum(v, Len(v)))]

\* The three-node tree with the root's placeholder value in the two leaves.
DegeneratePlaceholder(lefts, rights, features, thresholds, values) ==
  IF Len(lefts) = 1
  THEN TreeParameters(<<1, 0 - 1, 0 - 1>>, <<2, 0 - 1, 0 - 1>>, <<0, 0, 0>>, <<0, 0, 0>>,
                      << << <<0, 1>> >>, << <<0, 1>> >>, << <<0, 1>> >> >>)
  ELSE TreeParameters(lefts, rights, features, thresholds, values)

\* Lines 174-181 and 244-251: a tree of one node becomes a tree of three.
Degenerate(lefts, rights, features, thresholds, values) ==
  IF Len(lefts) = 1
  THEN TreeParameters(<<1, 0 - 1, 0 - 1>>, <<2, 0 - 1, 0 - 1>>, <<0, 0, 0>>, <<0, 0, 0>>,
                      << << <<0, 1>> >>, values[1], values[1] >>)
  ELSE TreeParameters(lefts, rights, features, thresholds, values)

-----------------------------------------------------------------------------
(* Tree-traversal parameters. *)

\* An entry of nodes_map: absent, or a Node whose fields are set once its own
\* pass has run (children are named by id).
NoEntry == [present |-> FALSE, filled |-> FALSE, left |-> 0, right |-> 0, feature |-> 0,
            threshold |-> 0, value |-> <<>>]

FreshNode == [NoEntry EXCEPT !.present = TRUE]

\* The feature kept in the Node of a node with a missing child.
LeafFeatureKept(feature) == feature

LeafFeature(feature) == 0 - 1

\* Lines 189-214, one pass: the node at position k of nodes = zip(ids, lefts,
\* rights, features, thresholds, values).
TravNodeStep(st, k, left, right, feature, threshold, value) ==
  LET id == k - 1
      m1 == IF left # 0 - 1 THEN [st.nodes_map EXCEPT ![left] = FreshNode] ELSE st.nodes_map
      m2 == IF right # 0 - 1 THEN [m1 EXCEPT ![right] = FreshNode] ELSE m1
      f  == IF left = 0 - 1 \/ right = 0 - 1 THEN LeafFeature(feature) ELSE feature
  IN  IF st.err # "" THEN st
      ELSE IF ~m2[id].present THEN [st EXCEPT !.err = "KeyError"]
      ELSE [nodes_map |-> [m2 EXCEPT ![id] = [present |-> TRUE, filled |-> TRUE,
                                               left |-> left, right |-> right, feature |-> f,
                                               threshold |-> threshold, value |-> value]],
            lefts |-> IF left = 0 - 1 THEN [st.lefts EXCEPT ![k] = id] ELSE st.lefts,
            rights |-> IF right = 0 - 1 THEN [st.rights EXCEPT ![k] = id] ELSE st.rights,
            err |-> ""]

RECURSIVE TravNodes(_, _, _, _)
TravNodes(st, k, m, t) ==
  IF k > m THEN st
  ELSE TravNodes(TravNodeStep(st, k, t.lefts[k], t.rights[k], t.features[k],
                              t.thresholds[k], t.values[k]),
                 k + 1, m, t)

MinLen5(t) ==
  MinOf(Len(t.lefts), MinOf(Len(t.rights), MinOf(Len(t.features),
        MinOf(Len(t.thresholds), Len(t.values)))))

\* The keys nodes_map can get: the ids, and whatever the child arrays name.
NodeIds(t) == (0..(Len(t.lefts) - 1)) \cup {c \in Range(t.lefts) \cup Range(t.rights) : c >= 0}

\* What the call returns (nodes_map, ids, lefts, rights, features, thresholds,
\* values), and what it leaves in the caller's lefts and rights lists.
get_parameters_for_tree_trav_common(lefts, rights, features, thresholds, values) ==
  LET t  == Degenerate(lefts, rights, features, thresholds, values)
      n  == Len(t.lefts)
      st == TravNodes([nodes_map |-> [i \in NodeIds(t) |-> IF i = 0 THEN FreshNode ELSE NoEntry],
                       lefts |-> t.lefts, rights |-> t.rights, err |-> ""],
                      1, MinLen5(t), t)
      caller_lefts  == IF Len(lefts) = 1 THEN lefts ELSE st.lefts
      caller_rights == IF Len(lefts) = 1 THEN rights ELSE st.rights
  IN  [status |-> IF st.err = "" THEN "returned" ELSE "raised",
       err |-> st.err,
       nodes_map |-> st.nodes_map,
       ids |-> [k \in 1..n |-> k - 1],
       lefts |-> st.lefts, rights |-> st.rights,
       features |-> t.features, thresholds |-> t.thresholds, values |-> t.values,
       caller_lefts |-> caller_lefts, caller_rights |-> caller_rights]

\* Lines 230-237: the features clamped at 0, the value rows made to sum to 1.
get_parameters_for_tree_trav_sklearn(lefts, rights, features, thresholds, values) ==
  LET fs == [k \in 1..Len(features) |-> MaxOf(features[k], 0)]
      vs == IF Len(values[1]) > 1
            THEN [k \in 1..Len(values) |-> Normalized(values[k])]
            ELSE values
  IN  get_parameters_for_tree_trav_common(lefts, rights, fs, thresholds, vs)

-----------------------------------------------------------------------------
(* GEMM parameters. *)

\* Lines 260-263: the rows of the first layer, one per node whose left entry
\* is not -1, over zip(lefts, features, thresholds).  split_nodes remembers
\* the node each row was made for.
RECURSIVE SplitLayer(_, _, _, _, _)
SplitLayer(k, lefts, features, thresholds, nf) ==
  IF k = 0 THEN [weights |-> <<>>, biases |-> <<>>, split_nodes |-> <<>>]
  ELSE LET prev == SplitLayer(k - 1, lefts, features, thresholds, nf) IN
       IF lefts[k] # 0 - 1
       THEN [weights |-> Append(prev.weights,
                                [c \in 1..nf |-> IF c - 1 = features[k] THEN 1 ELSE 0]),
             biases |-> Append(prev.biases, thresholds[k]),
             split_nodes |-> Append(prev.split_nodes, k - 1)]
       ELSE prev

\* Lines 244-279: everything before the loop.
GemmBegin(lefts, rights, features, thresholds, values, nf) ==
  LET t  == Degenerate(lefts, rights, features, thresholds, values)
      l1 == SplitLayer(MinOf(Len(t.lefts), MinOf(Len(t.features), Len(t.thresholds))),
                       t.lefts, t.features, t.thresholds, nf)
  IN  [pc |-> "loop", err |-> "",
       lefts |-> t.lefts, rights |-> t.rights, features |-> t.features,
       thresholds |-> t.thresholds, values |-> t.values,
       split_weights |-> l1.weights, split_biases |-> l1.biases,
       split_nodes |-> l1.split_nodes,
       n_splits |-> Len(l1.weights),
       path |-> <<0>>,
       n_nodes |-> Len(t.lefts),
       visited |-> [k \in 1..Len(t.lefts) |-> FALSE],
       hidden_weights |-> <<>>, hidden_biases |-> <<>>, class_proba |-> <<>>,
       emitted |-> <<>>]

\* list(lefts[:p]).count(-1); a negative p cuts the slice from the end.
NumLeavesBefore(lefts, p) ==
  LET m == IF p >= 0 THEN MinOf(p, Len(lefts)) ELSE MaxOf(0, Len(lefts) + p)
  IN  Cardinality({k \in 1..m : lefts[k] = 0 - 1})

ColumnOf(lefts, p) == p - NumLeavesBefore(lefts, p)

\* Lines 291-297: 1 when the next node of the path is a left child, -1 when
\* it is a right child, 0 when it is neither (RuntimeError).
PathSideSwapped(nxt, lefts, rights) ==
  IF nxt \in Range(rights) THEN 1
  ELSE IF nxt \in Range(lefts) THEN 0 - 1
  ELSE 0

PathSide(nxt, lefts, rights) ==
  IF nxt \in Range(lefts) THEN 1
  ELSE IF nxt \in Range(rights) THEN 0 - 1
  ELSE 0

\* Lines 299-303: the class-layer column of leaf i.
LeafColumnRaw(values, lastdim, i) == At(values, i)

LeafColumn(values, lastdim, i) ==
  IF lastdim > 1 THEN Normalized(At(values, i)) ELSE At(values, i)

\* Lines 286-307: the leaf at the top of the path gets its row, bias and
\* class column, and is popped.
GemmLeaf(g, i) ==
  LET path  == g.path
      js    == 1..(Len(path) - 1)
      side(j) == PathSide(path[j + 1], g.lefts, g.rights)
      pos(j)  == PyPos(ColumnOf(g.lefts, path[j]), g.n_splits)
      bad   == {j \in js : side(j) = 0 \/ pos(j) = 0}
      vec   == [c \in 1..g.n_splits |->
                  LET hits == {j \in js : pos(j) = c} IN
                  IF hits = {} THEN 0
                  ELSE side(CHOOSE j \in hits : \A o \in hits : o <= j)]
      num_positive == Cardinality({j \in js : side(j) = 1})
  IN  IF bad # {}
      THEN [g EXCEPT !.pc = "raised",
                     !.err = IF side(MinSet(bad)) = 0 THEN "RuntimeError" ELSE "IndexError"]
      ELSE [g EXCEPT !.class_proba = Append(@, LeafColumn(g.values, LastDim(g.values), i)),
                     !.hidden_weights = Append(@, vec),
                     !.hidden_biases = Append(@, num_positive),
                     !.emitted = Append(@, i),
                     !.path = SubSeq(path, 1, Len(path) - 1)]

\* Lines 308-313 with both children already visited.
BothVisitedStay(path) == path

BothVisited(path) == SubSeq(path, 1, Len(path) - 1)

\* Lines 282-313: one pass of the loop; nodes = zip(lefts, rights, features,
\* thresholds, values) has the length of the shortest of the five.
GemmLoopBody(g) ==
  LET i   == g.path[Len(g.path)]
      vi  == PyPos(i, g.n_nodes)
      ni  == PyPos(i, MinLen5(g))
      v1  == [g.visited EXCEPT ![vi] = TRUE]
      left  == g.lefts[ni]
      right == g.rights[ni]
      g1  == [g EXCEPT !.visited = v1]
  IN  IF vi = 0 \/ ni = 0 THEN [g EXCEPT !.pc = "raised", !.err = "IndexError"]
      ELSE IF left = 0 - 1 /\ right = 0 - 1 THEN GemmLeaf(g1, PyPos(i, g.n_nodes) - 1)
      ELSE IF PyPos(left, g.n_nodes) = 0 THEN [g1 EXCEPT !.pc = "raised", !.err = "IndexError"]
      ELSE IF ~v1[PyPos(left, g.n_nodes)] THEN [g1 EXCEPT !.path = Append(@, left)]
      ELSE IF PyPos(right, g.n_nodes) = 0 THEN [g1 EXCEPT !.pc = "raised", !.err = "IndexError"]
      ELSE IF ~v1[PyPos(right, g.n_nodes)] THEN [g1 EXCEPT !.path = Append(@, right)]
      ELSE [g1 EXCEPT !.path = BothVisited(@)]

\* Lines 315-322: the three layers are packed and returned.
GemmReturn(g) == [g EXCEPT !.pc = "returned"]

RECURSIVE GemmRun(_)
GemmRun(g) ==
  IF g.pc # "loop" THEN g
  ELSE IF Len(g.path) = 0 THEN GemmReturn(g)
  ELSE GemmRun(GemmLoopBody(g))

get_parameters_for_gemm_common(lefts, rights, features, thresholds, values, nf) ==
  GemmRun(GemmBegin(lefts, rights, features, thresholds, values, nf))

\* Lines 64-101: the deepest tree of the list, 0 for an empty list.
RECURSIVE FindMaxDepthFrom(_, _, _)
FindMaxDepthFrom(tree_parameters, k, depth) ==
  IF k > Len(tree_parameters) THEN Returned(depth)
  ELSE LET d == TreeDepth(tree_parameters[k].lefts, tree_parameters[k].rights) IN
       IF d.status = "raised" THEN d
       ELSE FindMaxDepthFrom(tree_parameters, k + 1, MaxOf(depth, d.val))

_find_max_depth(tree_parameters) == FindMaxDepthFrom(tree_parameters, 1, 0)

-----------------------------------------------------------------------------
(* A caller holding one tree's arrays and calling the functions on them, in  *)
(* any order and any number of times.  params is what the caller's arrays    *)
(* hold now, raw what they held at first.                                    *)

Init ==
  /\ params \in BuilderTrees
  /\ raw = params
  /\ trav = Idle /\ gemm = Idle /\ depth_call = Idle
  /\ ens = Idle /\ sel = Idle

CallFindMaxDepth ==
  /\ depth_call' = [pc |-> "done", arg |-> params, out |-> _find_max_depth(<<params>>)]
  /\ UNCHANGED <<params, raw, trav, gemm, ens, sel>>

CallTreeTravCommon ==
  LET out == get_parameters_for_tree_trav_common(
               params.lefts, params.rights, params.features, params.thresholds, params.values)
  IN  /\ trav' = [pc |-> "done", via |-> "common", arg |-> params, out |-> out]
      /\ params' = [params EXCEPT !.lefts = out.caller_lefts, !.rights = out.caller_rights]
      /\ UNCHANGED <<raw, gemm, depth_call, ens, sel>>

CallTreeTravSklearn ==
  LET out == get_parameters_for_tree_trav_sklearn(
               params.lefts, params.rights, params.features, params.thresholds, params.values)
  IN  /\ trav' = [pc |-> "done", via |-> "sklearn", arg |-> params, out |-> out]
      /\ params' = [params EXCEPT !.lefts = out.caller_lefts, !.rights = out.caller_rights]
      /\ UNCHANGED <<raw, gemm, depth_call, ens, sel>>

CallGemm ==
  /\ gemm' = [pc |-> "done", arg |-> params,
              out |-> get_parameters_for_gemm_common(
                        params.lefts, params.rights, params.features, params.thresholds,
                        params.values, n_features)]
  /\ UNCHANGED <<params, raw, trav, depth_call, ens, sel>>

\* The builders called on one tree, in any order, any number of times.
Next == CallTreeTravCommon \/ CallTreeTravSklearn \/ CallGemm

Spec == Init /\ [][Next]_vars

\* The same with the depth analysis called on the tree between the builders.
SessionNext == CallFindMaxDepth \/ CallTreeTravCommon \/ CallTreeTravSklearn \/ CallGemm

SessionSpec == Init /\ [][SessionNext]_vars

-----------------------------------------------------------------------------
(* One call of get_parameters_for_gemm_common, a loop pass at a time. *)

\* The call is made with the arrays of some tree.
GemmInit ==
  /\ params = Idle /\ raw = Idle
  /\ gemm = Idle
  /\ trav = Idle /\ depth_call = Idle /\ ens = Idle /\ sel = Idle

GemmStart ==
  /\ gemm.pc = "idle"
  /\ \E t \in BuilderTrees :
       /\ params' = t
       /\ raw' = t
       /\ gemm' = [pc |-> "running", arg |-> t,
                   out |-> GemmBegin(t.lefts, t.rights, t.features, t.thresholds,
                                     t.values, n_features)]
  /\ UNCHANGED <<trav, depth_call, ens, sel>>

GemmStep ==
  /\ gemm.pc = "running"
  /\ gemm.out.pc = "loop"
  /\ Len(gemm.out.path) > 0
  /\ gemm' = [gemm EXCEPT !.out = GemmLoopBody(gemm.out)]
  /\ UNCHANGED <<params, raw, trav, depth_call, ens, sel>>

GemmFinish ==
  /\ gemm.pc = "running"
  /\ gemm.out.pc = "loop"
  /\ Len(gemm.out.path) = 0
  /\ gemm' = [gemm EXCEPT !.pc = "done", !.out = GemmReturn(gemm.out)]
  /\ UNCHANGED <<params, raw, trav, depth_call, ens, sel>>

GemmNext == GemmStart \/ GemmStep \/ GemmFinish

GemmSpec == GemmInit /\ [][GemmNext]_vars /\ WF_vars(GemmStep) /\ WF_vars(GemmFinish)

-----------------------------------------------------------------------------
(* The same callers on arrays whose lengths disagree. *)

LengthsAgree(t) ==
  /\ Len(t.rights) = Len(t.lefts)
  /\ Len(t.features) = Len(t.lefts)
  /\ Len(t.thresholds) = Len(t.lefts)
  /\ Len(t.values) = Len(t.lefts)

Shorter(a) == SubSeq(a, 1, Len(a) - 1)

\* One of the five arrays loses its last entry or gets one entry more.
Mismatched(t) ==
  { [t EXCEPT !.lefts = Shorter(@)], [t EXCEPT !.lefts = Append(@, 0 - 1)],
    [t EXCEPT !.rights = Shorter(@)], [t EXCEPT !.rights = Append(@, 0 - 1)],
    [t EXCEPT !.features = Shorter(@)], [t EXCEPT !.features = Append(@, 0)],
    [t EXCEPT !.thresholds = Shorter(@)], [t EXCEPT !.thresholds = Append(@, 0)],
    [t EXCEPT !.values = Shorter(@)], [t EXCEPT !.values = Append(@, t.values[1])] }

ShapeInit ==
  /\ params \in UNION { Mismatched(t) : t \in {b \in BuilderTrees : Len(b.lefts) >= 3} }
  /\ raw = params
  /\ trav = Idle /\ gemm = Idle /\ depth_call = Idle
  /\ ens = Idle /\ sel = Idle

ShapeSpec == ShapeInit /\ [][Next]_vars

-----------------------------------------------------------------------------
(* How the compiled parameters are evaluated (sections 4.4 and 4.5 of the    *)
(* design): a split sends the input left when its feature is at most the     *)
(* threshold.                                                                *)

Inputs == [FeatureIds -> XVals]

GoesLeft(x, feature, threshold) == x[feature] <= threshold

\* Tree traversal: from node i, follow the child arrays until a node that
\* references itself.
RECURSIVE TravWalk(_, _, _, _)
TravWalk(out, x, i, fuel) ==
  IF (At(out.lefts, i) = i /\ At(out.rights, i) = i) \/ fuel = 0 THEN i
  ELSE IF GoesLeft(x, At(out.features, i), At(out.thresholds, i))
       THEN TravWalk(out, x, At(out.lefts, i), fuel - 1)
       ELSE TravWalk(out, x, At(out.rights, i), fuel - 1)

EvalTrav(out, x) == At(out.values, TravWalk(out, x, 0, Len(out.lefts)))

RECURSIVE DotFrom(_, _, _)
DotFrom(w, v, k) == IF k = 0 THEN 0 ELSE DotFrom(w, v, k - 1) + w[k] * v[k]

Dot(w, v) == DotFrom(w, v, Len(w))

\* Split layer: 1 for each split the input passes to the left.
SplitOutcome(g, x) ==
  [k \in 1..g.n_splits |->
     IF Dot(g.split_weights[k], [c \in 1..n_features |-> x[c - 1]]) <= g.split_biases[k]
     THEN 1 ELSE 0]

\* Path layer: the rows whose product with the split outcomes equals their bias.
ActiveRows(g, s) ==
  {r \in 1..Len(g.hidden_weights) : Dot(g.hidden_weights[r], s) = g.hidden_biases[r]}

\* Class layer: the columns of the active rows.
EvalGemm(g, x) == {g.class_proba[r] : r \in ActiveRows(g, SplitOutcome(g, x))}

\* The leaf the tree (l, r) reaches from node i when split_nodes[k] goes left
\* iff s[k] = 1.
RECURSIVE RefLeaf(_, _, _, _, _)
RefLeaf(l, r, split_nodes, s, i) ==
  IF At(l, i) = 0 - 1 THEN i
  ELSE LET k == CHOOSE c \in 1..Len(split_nodes) : split_nodes[c] = i IN
       IF s[k] = 1 THEN RefLeaf(l, r, split_nodes, s, At(l, i))
       ELSE RefLeaf(l, r, split_nodes, s, At(r, i))

\* A leaf value as the class layer holds it: divided by the sum of its
\* components when it has more than one.
AsClassColumn(v) == IF Len(v) > 1 THEN Normalized(v) ELSE v

LeavesOf(l) == {i \in 0..(Len(l) - 1) : At(l, i) = 0 - 1}

GemmOnRaw == gemm.pc = "done" /\ gemm.arg = raw

TravOnRaw == trav.pc = "done" /\ trav.arg = raw

-----------------------------------------------------------------------------
(* The depth analysis called on one tree that may have one-sided nodes. *)

FindDepthInit ==
  /\ params \in UNION {
       { TreeParameters(sh.lefts, sh.rights,
                        [k \in 1..n |-> IF sh.lefts[k] = 0 - 1 /\ sh.rights[k] = 0 - 1
                                        THEN 0 - 2 ELSE 0],
                        ThresholdArray(n), ValueArray("scalar", n))
         : sh \in AllShapes(n) }
       : n \in 1..MaxOneSidedNodes }
  /\ raw = params
  /\ trav = Idle /\ gemm = Idle /\ depth_call = Idle
  /\ ens = Idle /\ sel = Idle

FindDepthCall == depth_call.pc = "idle" /\ CallFindMaxDepth

FindDepthSpec == FindDepthInit /\ [][FindDepthCall]_vars

-----------------------------------------------------------------------------
(* Claims. *)

RECURSIVE Pow2(_)
Pow2(k) == IF k = 0 THEN 1 ELSE 2 * Pow2(k - 1)

\* C1 as stated: for a well-formed tree and every input, the class-layer
\* column the GEMM parameters select is the leaf value the tree-traversal
\* arrays of get_parameters_for_tree_trav_common lead to.
C1_SameLeafValue ==
  (GemmOnRaw /\ TravOnRaw /\ trav.via = "common") =>
    /\ gemm.out.pc = "returned"
    /\ trav.out.status = "returned"
    /\ \A x \in Inputs : EvalGemm(gemm.out, x) = {EvalTrav(trav.out, x)}

\* C1 amended: both strategies reach the same leaf for every input; the
\* class-layer column selected is that leaf's value, divided by the sum of its
\* components when it has more than one component.
C1_SameLeaf ==
  (GemmOnRaw /\ TravOnRaw /\ trav.via = "common") =>
    /\ gemm.out.pc = "returned"
    /\ trav.out.status = "returned"
    /\ \A x \in Inputs :
         /\ {gemm.out.emitted[r] : r \in ActiveRows(gemm.out, SplitOutcome(gemm.out, x))}
              = {TravWalk(trav.out, x, 0, Len(trav.out.lefts))}
         /\ Cardinality(ActiveRows(gemm.out, SplitOutcome(gemm.out, x))) = 1
         /\ EvalGemm(gemm.out, x) = {AsClassColumn(EvalTrav(trav.out, x))}

\* Both builders have run on the raw arrays of a five-node tree whose leaves
\* hold class counts.
C1_Witness ==
  /\ GemmOnRaw /\ TravOnRaw /\ trav.via = "common"
  /\ Len(raw.lefts) = 5
  /\ raw.values[1] = << <<1, 1>>, <<1, 1>> >>
  /\ gemm.out.pc = "returned"

TravIsCorrected(out, v) ==
  /\ out.status = "returned"
  /\ out.lefts = <<1, 1, 2>> /\ out.rights = <<2, 1, 2>>
  /\ out.features[1] = 0 /\ out.thresholds[1] = 0
  /\ out.values[2] = v /\ out.values[3] = v

\* The same tree as the GEMM builder returns it: one split on feature 0 at
\* threshold 0, one row per leaf.
GemmIsCorrected(g) ==
  /\ g.pc = "returned"
  /\ g.split_weights = << [c \in 1..n_features |-> IF c = 1 THEN 1 ELSE 0] >>
  /\ g.split_biases = <<0>>
  /\ g.hidden_weights = << <<1>>, <<0 - 1>> >>
  /\ g.hidden_biases = <<1, 0>>
  /\ Len(g.class_proba) = 2

\* C3 as stated: a tree of one leaf with value v is compiled by both builders
\* to the three-node tree, and evaluating either output gives v for every input.
C3_SingleLeafGivesV ==
  Len(raw.lefts) = 1 =>
    /\ (TravOnRaw /\ trav.via = "common") =>
         /\ TravIsCorrected(trav.out, raw.values[1])
         /\ \A x \in Inputs : EvalTrav(trav.out, x) = raw.values[1]
    /\ GemmOnRaw =>
         /\ GemmIsCorrected(gemm.out)
         /\ \A x \in Inputs : EvalGemm(gemm.out, x) = {raw.values[1]}

\* C3 amended: both builders compile the three-node tree; the tree-traversal
\* output evaluates to v for every input, and the GEMM output to v when v has
\* one component and to v divided by the sum of its components otherwise.
C3_SingleLeafConstant ==
  Len(raw.lefts) = 1 =>
    /\ (TravOnRaw /\ trav.via = "common") =>
         /\ TravIsCorrected(trav.out, raw.values[1])
         /\ \A x \in Inputs : EvalTrav(trav.out, x) = raw.values[1]
    /\ GemmOnRaw =>
         /\ GemmIsCorrected(gemm.out)
         /\ \A x \in Inputs : EvalGemm(gemm.out, x) = {AsClassColumn(raw.values[1])}

\* Both builders have compiled a single leaf holding class counts.
C3_Witness ==
  /\ Len(raw.lefts) = 1
  /\ raw.values[1] = << <<1, 1>>, <<1, 1>> >>
  /\ GemmOnRaw /\ TravOnRaw /\ trav.via = "common"

\* C4: over an ensemble of well-formed trees the depth analysis does not fail
\* and the max_depth returned is the longest root-to-leaf path of any tree,
\* floored at 1; a balanced tree of height h (2^h - 1 internal nodes, so
\* 2^(h+1) - 1 nodes) alone gives h, a single leaf alone gives 1.
C4_EnsembleDepth ==
  /\ (ens.pc # "idle" /\ ens.wf) => ens.tree_depth.status = "returned"
  /\ (ens.pc = "returned" /\ ens.wf) =>
       /\ ens.max_depth = MaxOf(1, ens.expected)
       /\ (ens.count = 1 /\ ens.tree.balanced) =>
            /\ ens.tree.nodes = Pow2(ens.tree.height + 1) - 1
            /\ ens.max_depth = MaxOf(1, ens.tree.height)

\* A balanced tree of height 2 alone in the ensemble has given max_depth 2.
C4_Witness ==
  /\ ens.pc = "returned"
  /\ ens.count = 1
  /\ ens.tree.balanced /\ ens.tree.height = 2 /\ ens.tree.nodes = 7
  /\ ens.max_depth = 2

\* C5: for a well-formed tree and every assignment of outcomes to its splits,
\* exactly one path-layer row has a product with the outcome vector equal to
\* its bias, and it is the row of the leaf that assignment leads to.
C5_OneLeafActive ==
  GemmOnRaw =>
    /\ gemm.out.pc = "returned"
    /\ \A s \in [1..gemm.out.n_splits -> {0, 1}] :
         \E r \in 1..Len(gemm.out.hidden_weights) :
           /\ ActiveRows(gemm.out, s) = {r}
           /\ gemm.out.emitted[r]
                = RefLeaf(gemm.out.lefts, gemm.out.rights, gemm.out.split_nodes, s, 0)

\* The GEMM builder has returned the three rows of a two-split tree.
C5_Witness ==
  /\ GemmOnRaw
  /\ gemm.out.pc = "returned"
  /\ gemm.out.n_splits = 2
  /\ Len(gemm.out.hidden_weights) = 3


\* The split feature of node k of the compiled tree: the raw entry, or 0 in
\* the root synthesized for a single leaf.
SplitFeatureOf(k) == IF Len(raw.lefts) = 1 THEN 0 ELSE raw.features[k]

\* The entry of node k in the features argument the common builder compiles:
\* the raw entry, clamped at 0 by the sklearn wrapper, or 0 for a single leaf.
FeaturePassed(k) ==
  IF Len(raw.lefts) = 1 THEN 0
  ELSE IF trav.via = "sklearn" THEN MaxOf(raw.features[k], 0)
  ELSE raw.features[k]

SelfReferencing(out, k) == out.lefts[k] = k - 1 /\ out.rights[k] = k - 1

\* C6 as stated: in the feature array the tree-traversal builder returns
\* (directly or through the sklearn wrapper) every leaf's entry is -1 and every
\* internal node's entry is its split feature.
C6_FeatureArraySentinel ==
  TravOnRaw =>
    \A k \in 1..Len(trav.out.lefts) :
      IF SelfReferencing(trav.out, k)
      THEN trav.out.features[k] = 0 - 1
      ELSE trav.out.features[k] = SplitFeatureOf(k)

\* C6 amended: the -1 is in the Node objects of the returned node map: every
\* leaf's Node has feature -1 and every internal Node its split feature.  The
\* returned feature array holds the split feature of every internal node and,
\* for a leaf, the entry it was given (clamped at 0 by the sklearn wrapper).
C6_NodeMapSentinel ==
  TravOnRaw =>
    /\ trav.out.status = "returned"
    /\ \A k \in 1..Len(trav.out.lefts) :
         IF SelfReferencing(trav.out, k)
         THEN /\ trav.out.nodes_map[k - 1].feature = 0 - 1
              /\ trav.out.features[k] = FeaturePassed(k)
         ELSE /\ trav.out.nodes_map[k - 1].feature = SplitFeatureOf(k)
              /\ trav.out.features[k] = SplitFeatureOf(k)

\* The sklearn wrapper has compiled a five-node tree and a leaf's entry in the
\* returned feature array is 0.
C6_Witness ==
  /\ TravOnRaw /\ trav.via = "sklearn"
  /\ Len(raw.lefts) = 5
  /\ \E k \in 1..5 : SelfReferencing(trav.out, k) /\ trav.out.features[k] = 0

\* C7: after any sequence of calls the caller's lefts and rights hold what
\* they held before the first call, and every call has returned what it
\* returns on the raw arrays.
C7_CallerArraysKept ==
  /\ params.lefts = raw.lefts
  /\ params.rights = raw.rights
  /\ depth_call.pc = "done" => depth_call.out = _find_max_depth(<<raw>>)
  /\ gemm.pc = "done" =>
       gemm.out = get_parameters_for_gemm_common(raw.lefts, raw.rights, raw.features,
                                                 raw.thresholds, raw.values, n_features)
  /\ (trav.pc = "done" /\ trav.via = "common") =>
       trav.out = get_parameters_for_tree_trav_common(raw.lefts, raw.rights, raw.features,
                                                      raw.thresholds, raw.values)
  /\ (trav.pc = "done" /\ trav.via = "sklearn") =>
       trav.out = get_parameters_for_tree_trav_sklearn(raw.lefts, raw.rights, raw.features,
                                                       raw.thresholds, raw.values)

\* C8: a call whose five arrays do not all have the same length ends in an
\* error, raised before any layer, row or node has been built, and returns
\* nothing.
C8_MismatchRejected ==
  /\ (trav.pc = "done" /\ ~LengthsAgree(trav.arg)) =>
       /\ trav.out.status = "raised"
       /\ \A i \in DOMAIN trav.out.nodes_map : ~trav.out.nodes_map[i].filled
  /\ (gemm.pc = "done" /\ ~LengthsAgree(gemm.arg)) =>
       /\ gemm.out.pc = "raised"
       /\ gemm.out.split_weights = <<>>
       /\ gemm.out.hidden_weights = <<>>
       /\ \A k \in 1..Len(gemm.out.visited) : ~gemm.out.visited[k]

HasOneSided(l, r) ==
  \E k \in 1..Len(l) : (l[k] = 0 - 1) # (r[k] = 0 - 1)

\* C9: on a tree with a node that has exactly one real child the depth
\* analysis does not fail: it recurses into the real child only and returns
\* the depth found there (the longest path of real children).
C9_OneSidedRecurses ==
  (depth_call.pc = "done" /\ HasOneSided(depth_call.arg.lefts, depth_call.arg.rights)) =>
    /\ depth_call.out.status = "returned"
    /\ depth_call.out.val = RefHeight(depth_call.arg.lefts, depth_call.arg.rights, 0)

\* What the path enumeration has produced when it returns.
EnumerationComplete(g) ==
  /\ g.pc = "returned"
  /\ Len(g.path) = 0
  /\ Len(g.emitted) = Cardinality(LeavesOf(g.lefts))
  /\ Range(g.emitted) = LeavesOf(g.lefts)
  /\ Len(g.hidden_weights) = Len(g.emitted)
  /\ Len(g.hidden_biases) = Len(g.emitted)
  /\ Len(g.class_proba) = Len(g.emitted)
  /\ g.n_splits = Len(g.lefts) - Cardinality(LeavesOf(g.lefts))
  /\ \A r \in 1..Len(g.hidden_weights) : Len(g.hidden_weights[r]) = g.n_splits

\* C10: on a well-formed tree the loop started with the stack [0] empties the
\* stack and the call returns, having emitted one row and one class column
\* per leaf, each leaf once, every row with one column per internal node.
C10_PathEnumeration ==
  /\ (gemm.pc = "running") ~> (gemm.pc = "done")
  /\ [](gemm.pc = "done" => EnumerationComplete(gemm.out))

\* The loop has returned from a five-node tree with its three leaves emitted.
C10_Witness ==
  /\ gemm.pc = "done"
  /\ Len(gemm.out.lefts) = 5
  /\ Len(gemm.out.emitted) = 3
  /\ Len(gemm.out.path) = 0

====
